---- MODULE Spec2Model ----
(***************************************************************************)
(* ixfrlog: the IXFR diff decoder ixfrlog() and the zone loop of main()    *)
(* of src/ixfrlog.py, and the fold and the report of src/watchlist.py.     *)
(*                                                                         *)
(* Texts (zone names, owner names) are sequences of tokens, "." being a    *)
(* token of its own, so that rstrip(".") and name2str() are computed and   *)
(* not assumed.  A file is a record of the lines that reached the disk,    *)
(* the lines still held in the writer's buffer, and whether the writer is  *)
(* open.                                                                   *)
(***************************************************************************)
EXTENDS Integers, Sequences, FiniteSets, TLC

\* ------------------------------------------------------------------ bounds

\* rrsets read by one call of ixfrlog() in the zone loop (Spec)
MaxRRsets == 3
\* rrsets read by one call of ixfrlog() taken alone (SpecIxfr)
MaxStream == 6
\* runs of the process, one after the other (SpecRuns)
MaxRuns == 2

\* SOA serials the transfer source may send
Serials == {10, 11}
\* state keys (dict order) the state file may hold
ZoneLists ==
    { <<>>,
      << <<"a">> >>,
      << <<"a", ".">> >>,
      << <<"a">>, <<"b">> >>,
      << <<"a", ".">>, <<"a">> >> }

\* ------------------------------------------------------- values of the code

\* Python's None where an int is expected (a serial, an exit status)
None == -1
\* action_add before its first assignment
Unbound == "unbound"
\* no file name (the "filename" key is absent)
NoFilename == [zone |-> <<>>, serial |-> None]
\* res before its first assignment
NoResult == [bound |-> FALSE, changes |-> 0, serial |-> None]
\* output_fp when no file object was made
NoFile ==
    [obj |-> FALSE, onDisk |-> FALSE, open |-> FALSE, disk |-> <<>>,
     buf |-> <<>>]

IGNORE_RDATATYPES == {"SOA", "NSEC", "NSEC3", "RRSIG"}

\* The rrsets of a message's answer section: SOA markers, one ignored type,
\* and ordinary records at the apex ("@") and below it.
SoaRRset(s) ==
    [rdtype |-> "SOA", name |-> <<"@">>, serial |-> s, ttl |-> 300,
     rdclass |-> "IN", rdata |-> <<"soa">>]
RecRRset(t, n) ==
    [rdtype |-> t, name |-> n, serial |-> None, ttl |-> 300,
     rdclass |-> "IN", rdata |-> <<"r">>]
RRsets ==
    {SoaRRset(s) : s \in Serials}
        \cup {RecRRset("NSEC", <<"@">>)}
        \cup {RecRRset("A", n) : n \in {<<"@">>, <<"www">>}}

\* ------------------------------------------------------------ pure functions

\* str.rstrip("."): drop every trailing "."
RECURSIVE rstrip(_)
rstrip(z) ==
    IF z # <<>> /\ z[Len(z)] = "."
    THEN rstrip(SubSeq(z, 1, Len(z) - 1))
    ELSE z

\* dns.name.from_text(zone): the absolute name, printed with one trailing "."
from_text(zone) == rstrip(zone) \o <<".">>

\* name2str(name, origin)
name2str(n, origin) ==
    IF n = <<"@">> THEN origin ELSE n \o <<".">> \o origin

\* f"{zone}-{new_serial}.log"
Filename(zone, new_serial) == [zone |-> zone, serial |-> new_serial]

\* IsIgnored, had NSEC been left out of the list
IsIgnoredButNsec(rdtype) == rdtype \in IGNORE_RDATATYPES \ {"NSEC"}
\* rrset.rdtype in IGNORE_RDATATYPES
IsIgnored(rdtype) == rdtype \in IGNORE_RDATATYPES

\* ActionAdd, had it compared the serials by order
ActionAddIfGreater(s, last) == s > last
\* the ADD/DEL decision at an SOA after the first
ActionAdd(s, last) == s # last

\* Message, had "deleted" been given action_add as it is
MessageFlagAsAdd(rrset, log_serial, add, origin) ==
    [serial |-> log_serial,
     deleted |-> add,
     name |-> name2str(rrset.name, origin),
     ttl |-> rrset.ttl,
     rdclass |-> rrset.rdclass,
     rdtype |-> rrset.rdtype,
     rdata |-> rrset.rdata]
\* the published message
Message(rrset, log_serial, add, origin) ==
    [serial |-> log_serial,
     deleted |-> ~add,
     name |-> name2str(rrset.name, origin),
     ttl |-> rrset.ttl,
     rdclass |-> rrset.rdclass,
     rdtype |-> rrset.rdtype,
     rdata |-> rrset.rdata]

\* the log line: the message's fields and the rrset's text
LogEntry(rrset, log_serial, add, origin) ==
    [serial |-> log_serial,
     deleted |-> ~add,
     name |-> name2str(rrset.name, origin),
     ttl |-> rrset.ttl,
     rdclass |-> rrset.rdclass,
     rdtype |-> rrset.rdtype,
     rdata |-> rrset.rdata,
     text |-> <<name2str(rrset.name, origin), rrset.ttl, rrset.rdclass,
                rrset.rdtype, rrset.rdata>>]

\* Updated, had it left out the comparison with last_serial
UpdatedIfNotNone(new, last) == new # None
\* updated = new_serial is not None and last_serial != new_serial
Updated(new, last) == new # None /\ last # new

\* config.get("serial", 0)
GetSerial(config) == IF config.serial = None THEN 0 ELSE config.serial

\* ---------------------------------------------------------------- state

VARIABLES
    args,         \* [log, mqtt]: --log / --no-log, --mqtt given or not
    keys,         \* the state dict's keys, in iteration order
    state,        \* the state dict: key -> [serial, filename]
    saved,        \* the state file written by this run (<<>>: not written)
    idx,          \* zones whose loop iteration has ended
    pc,           \* where main() is, or the exception that ended it
    exit_status,  \* main's exit_status
    rc,           \* the process's exit status (None while it runs)
    last_serial, new_serial, res, exc, output_size,   \* main's locals
    serial, ixfr_found, first_soa, action_add, changes, \* ixfrlog's locals
    stream,       \* the rrsets ixfrlog() has read in this call
    output_fp,    \* the temporary file of this iteration
    finals,       \* the files under a final name: name -> file
    renamed,      \* the iterations (1..) that ended with os.rename
    published,    \* what mqttc.publish was given by this process, in order
    \* the runs of the process, one after the other
    run,          \* the processes started so far
    loaded,       \* the state file as this process found it
    prior,        \* what earlier processes published, in order
    \* watchlist.py
    wpc,                    \* where watchlist's main() is
    watchlist,              \* the watch list: <<[domain, recipients], ..>>
    domains_per_recipient,  \* <<[recipient, domains], ..>>, insertion order
    data_del, data_add,     \* name -> set of comparison keys
    modified_names,
    lines,                  \* the log lines read so far
    printed                 \* what was printed: the lines of each report

\* the variables of ixfrlog.py
ixfrVars ==
    <<args, keys, state, saved, idx, pc, exit_status, rc, last_serial,
      new_serial, res, exc, output_size, serial, ixfr_found, first_soa,
      action_add, changes, stream, output_fp, finals, renamed,
      published>>
runVars == <<run, loaded, prior>>
\* the variables of watchlist.py
watchVars ==
    <<wpc, watchlist, domains_per_recipient, data_del, data_add,
      modified_names, lines, printed>>

vars == <<ixfrVars, runVars, watchVars>>

mainLocals == <<last_serial, new_serial, res, exc, output_size>>
ixfrLocals == <<serial, ixfr_found, first_soa, action_add, changes>>
config == <<args, keys>>

\* the zone of the running iteration
zone == keys[idx + 1]
\* f"{MQTT_TOPIC}/{zone}"
Topic(z) == <<"ixfrlog", z>>

\* an entry of the state file: {"nameserver": ..} with or without "serial"
Entries ==
    {[serial |-> s, filename |-> NoFilename] : s \in {None} \cup Serials}

\* watchlist.py is not running
WatchIdle ==
    /\ wpc = "idle"
    /\ watchlist = <<>>
    /\ domains_per_recipient = <<>>
    /\ data_del = <<>> /\ data_add = <<>>
    /\ modified_names = {}
    /\ lines = <<>>
    /\ printed = <<>>

Init ==
    /\ args \in [log : BOOLEAN, mqtt : BOOLEAN]
    /\ keys \in ZoneLists
    /\ state \in [{keys[i] : i \in 1..Len(keys)} -> Entries]
    /\ saved = <<>>
    /\ idx = 0
    /\ pc = "loop"
    /\ exit_status = 0
    /\ rc = None
    /\ last_serial = 0 /\ new_serial = None /\ res = NoResult
    /\ exc = None /\ output_size = 0
    /\ serial = 0 /\ ixfr_found = FALSE /\ first_soa = None
    /\ action_add = Unbound /\ changes = 0
    /\ stream = <<>>
    /\ output_fp = NoFile
    /\ finals = <<>>
    /\ renamed = {}
    /\ published = <<>>
    /\ run = 1 /\ loaded = state /\ prior = <<>>
    /\ WatchIdle

\* ------------------------------------------------------------ the zone loop

\* tempfile.NamedTemporaryFile(mode="wt", ..., delete=False)
NamedTemporaryFile ==
    [obj |-> TRUE, onDisk |-> TRUE, open |-> TRUE, disk |-> <<>>,
     buf |-> <<>>]

\* fp.write(line): the line goes to the writer's buffer
Write(f, line) == [f EXCEPT !.buf = Append(@, line)]

\* Close, had the file been renamed with its writer still open
CloseSkipped(f) == f
\* output_fp.close(): what the buffer holds reaches the disk
Close(f) == [f EXCEPT !.open = FALSE, !.disk = @ \o f.buf, !.buf = <<>>]

\* The top of a loop iteration, up to the call of ixfrlog() and its first
\* lines: last_serial, the temporary file, ixfrlog's locals.
ZoneStart ==
    /\ pc = "loop"
    /\ idx < Len(keys)
    /\ last_serial' = GetSerial(state[zone])
    /\ output_fp' = IF args.log THEN NamedTemporaryFile ELSE NoFile
    /\ serial' = GetSerial(state[zone])
    /\ ixfr_found' = FALSE
    /\ first_soa' = None
    /\ action_add' = Unbound
    /\ changes' = 0
    /\ stream' = <<>>
    /\ pc' = "xfr"
    /\ UNCHANGED <<config, runVars, watchVars,
                   state, saved, idx, exit_status, rc, new_serial,
                   res, exc, output_size, finals, renamed, published>>

\* One pass of ixfrlog()'s inner loop, for the rrset the source sends next.
RecvRRset(rrset) ==
    /\ pc = "xfr"
    /\ LET isSoa == rrset.rdtype = "SOA"
           marker == isSoa /\ first_soa # None
           first1 == IF isSoa /\ first_soa = None THEN rrset.serial
                     ELSE first_soa
           serial1 == IF marker THEN rrset.serial ELSE serial
           found1 == ixfr_found \/ marker
           add1 == IF marker
                   THEN (IF ActionAdd(rrset.serial, serial) THEN "add"
                         ELSE "del")
                   ELSE action_add
           origin == from_text(zone)
       IN  /\ stream' = Append(stream, rrset)
           /\ first_soa' = first1
           /\ serial' = serial1
           /\ ixfr_found' = found1
           /\ action_add' = add1
           /\ IF IsIgnored(rrset.rdtype)
              THEN \* continue
                   UNCHANGED <<pc, rc, exc, changes, output_fp, published>>
              ELSE IF ~found1
              THEN \* raise FailedIXFR(serial=first_soa.serial)
                   IF first1 = None
                   THEN \* first_soa is None: AttributeError, caught nowhere
                        /\ pc' = "AttributeError"
                        /\ rc' = 1
                        /\ UNCHANGED <<exc, changes, output_fp, published>>
                   ELSE /\ pc' = "except"
                        /\ exc' = first1
                        /\ UNCHANGED <<rc, changes, output_fp, published>>
              ELSE /\ changes' = changes + 1
                   /\ output_fp' =
                        IF output_fp.obj
                        THEN Write(output_fp,
                                   LogEntry(rrset, serial1, add1 = "add",
                                            origin))
                        ELSE output_fp
                   /\ published' =
                        IF args.mqtt
                        THEN Append(published,
                                    [topic |-> Topic(zone),
                                     payload |-> Message(rrset, serial1,
                                                         add1 = "add",
                                                         origin)])
                        ELSE published
                   /\ UNCHANGED <<pc, rc, exc>>
    /\ UNCHANGED <<config, runVars, watchVars,
                   state, saved, idx, exit_status, last_serial,
                   new_serial, res, output_size, finals, renamed>>

\* IxfrReturn, had it returned the first SOA's serial (the serial the
\* transfer leads to) instead of the serial of the last marker
IxfrReturnFirstSoa ==
    /\ pc = "xfr"
    /\ res' = [bound |-> TRUE, changes |-> changes, serial |-> first_soa]
    /\ new_serial' = first_soa
    /\ pc' = "close"
    /\ UNCHANGED <<config, runVars, watchVars,
                   state, saved, idx, exit_status, rc, last_serial,
                   exc, output_size, ixfrLocals, stream, output_fp, finals,
                   renamed, published>>

\* The source is exhausted: ixfrlog() returns, and main() takes the result.
IxfrReturn ==
    /\ pc = "xfr"
    /\ res' = [bound |-> TRUE, changes |-> changes, serial |-> serial]
    /\ new_serial' = serial
    /\ pc' = "close"
    /\ UNCHANGED <<config, runVars, watchVars,
                   state, saved, idx, exit_status, rc, last_serial,
                   exc, output_size, ixfrLocals, stream, output_fp, finals,
                   renamed, published>>

\* The resolver or the transfer raises (socket.gaierror, dns.exception...):
\* no handler of main() catches it, the process ends with a traceback.
TransportError ==
    /\ pc = "xfr"
    /\ pc' = "TransportError"
    /\ rc' = 1
    /\ UNCHANGED <<config, runVars, watchVars,
                   state, saved, idx, exit_status, mainLocals,
                   ixfrLocals, stream, output_fp, finals, renamed,
                   published>>

\* except FailedIXFR as exc
ExceptFailedIXFR ==
    /\ pc = "except"
    /\ new_serial' = None
    /\ state' = [state EXCEPT ![zone].serial = exc]
    /\ pc' = "close"
    /\ UNCHANGED <<config, runVars, watchVars,
                   saved, idx, exit_status, rc, last_serial, res,
                   exc, output_size, ixfrLocals, stream, output_fp, finals,
                   renamed, published>>

\* if output_fp: output_size = os.fstat(...).st_size; output_fp.close().
\* The size is read before the writer is flushed: it counts what the writer
\* flushed on its own while buffering, any part of what was written (in
\* lines here; only output_size > 0 is used).
CloseOutput ==
    /\ pc = "close"
    /\ IF output_fp.obj
       THEN /\ \E flushed \in 0..Len(output_fp.buf) : output_size' = flushed
            /\ output_fp' = Close(output_fp)
       ELSE UNCHANGED <<output_size, output_fp>>
    /\ pc' = "finish"
    /\ UNCHANGED <<config, runVars, watchVars,
                   state, saved, idx, exit_status, rc, last_serial,
                   new_serial, res, exc, ixfrLocals, stream, finals,
                   renamed, published>>

\* os.rename(output_fp.name, filename)
Rename(f, filename) ==
    [n \in DOMAIN finals \cup {filename} |->
        IF n = filename THEN f ELSE finals[n]]

\* The end of a loop iteration: updated, the state's serial, and the rename
\* or the unlink of the temporary file.
FinishZone ==
    /\ pc = "finish"
    /\ LET updated == Updated(new_serial, last_serial)
           state1 == IF updated /\ res.bound
                     THEN [state EXCEPT ![zone].serial = new_serial]
                     ELSE state
           z == rstrip(zone)
           filename == Filename(z, new_serial)
       IN  IF output_fp.obj /\ updated /\ output_size > 0
           THEN IF z \notin DOMAIN state1
                THEN \* state[zone]["filename"]: KeyError, caught nowhere
                     /\ state' = state1
                     /\ pc' = "KeyError"
                     /\ rc' = 1
                     /\ UNCHANGED <<idx, exit_status, output_fp, finals,
                                    renamed>>
                ELSE /\ state' = [state1 EXCEPT ![z].filename = filename]
                     /\ finals' = Rename(output_fp, filename)
                     /\ output_fp' = [output_fp EXCEPT !.onDisk = FALSE]
                     /\ renamed' = renamed \cup {idx + 1}
                     /\ idx' = idx + 1
                     /\ pc' = "loop"
                     /\ UNCHANGED <<exit_status, rc>>
           ELSE /\ state' = state1
                /\ IF output_fp.obj
                   THEN \* os.unlink(output_fp.name)
                        /\ output_fp' = [output_fp EXCEPT !.onDisk = FALSE]
                        /\ exit_status' = -1
                   ELSE UNCHANGED <<output_fp, exit_status>>
                /\ idx' = idx + 1
                /\ pc' = "loop"
                /\ UNCHANGED <<rc, finals, renamed>>
    /\ UNCHANGED <<config, runVars, watchVars,
                   saved, mainLocals, ixfrLocals, stream, published>>

\* After the loop: the state file is written, sys.exit(exit_status).
ExitLoop ==
    /\ pc = "loop"
    /\ idx = Len(keys)
    /\ saved' = <<state>>
    /\ rc' = IF exit_status = 0 THEN 0 ELSE 255
    /\ pc' = "done"
    /\ UNCHANGED <<config, runVars, watchVars,
                   state, idx, exit_status, mainLocals, ixfrLocals,
                   stream, output_fp, finals, renamed, published>>

Next ==
    \/ ZoneStart
    \/ TransportError
    \/ (Len(stream) < MaxRRsets /\ \E rrset \in RRsets : RecvRRset(rrset))
    \/ IxfrReturn
    \/ ExceptFailedIXFR
    \/ CloseOutput
    \/ FinishZone
    \/ ExitLoop

Spec == Init /\ [][Next]_vars

\* -------------------------------------------- the process, run after run

\* The process has ended and is started again with the same arguments: it
\* loads the state file, which is the one the last process wrote if it
\* came to write it, and else the one that process had found.  What was
\* published stays published; the files under a final name stay on disk.
Restart ==
    /\ rc # None
    /\ run < MaxRuns
    /\ LET file == IF saved # <<>> THEN saved[1] ELSE loaded
       IN  /\ state' = file
           /\ loaded' = file
    /\ run' = run + 1
    /\ prior' = prior \o published
    /\ published' = <<>>
    /\ saved' = <<>>
    /\ idx' = 0
    /\ pc' = "loop"
    /\ exit_status' = 0
    /\ rc' = None
    /\ last_serial' = 0 /\ new_serial' = None /\ res' = NoResult
    /\ exc' = None /\ output_size' = 0
    /\ serial' = 0 /\ ixfr_found' = FALSE /\ first_soa' = None
    /\ action_add' = Unbound /\ changes' = 0
    /\ stream' = <<>>
    /\ output_fp' = NoFile
    /\ renamed' = {}
    /\ UNCHANGED <<config, watchVars, finals>>

NextRuns ==
    \/ Next
    \/ Restart

SpecRuns == Init /\ [][NextRuns]_vars

\* ------------------------------------------------- ixfrlog() taken alone

\* main() has just called ixfrlog() for its only zone.
InitIxfr ==
    /\ args \in [log : BOOLEAN, mqtt : BOOLEAN]
    /\ keys = << <<"a">> >>
    /\ state \in [{<<"a">>} -> Entries]
    /\ saved = <<>>
    /\ idx = 0
    /\ pc = "xfr"
    /\ exit_status = 0
    /\ rc = None
    /\ last_serial = GetSerial(state[<<"a">>])
    /\ new_serial = None /\ res = NoResult
    /\ exc = None /\ output_size = 0
    /\ serial = last_serial /\ ixfr_found = FALSE /\ first_soa = None
    /\ action_add = Unbound /\ changes = 0
    /\ stream = <<>>
    /\ output_fp = IF args.log THEN NamedTemporaryFile ELSE NoFile
    /\ finals = <<>>
    /\ renamed = {}
    /\ published = <<>>
    /\ run = 1 /\ loaded = state /\ prior = <<>>
    /\ WatchIdle

NextIxfr ==
    \/ TransportError
    \/ (Len(stream) < MaxStream /\ \E rrset \in RRsets : RecvRRset(rrset))
    \/ IxfrReturn

SpecIxfr == InitIxfr /\ [][NextIxfr]_vars

\* ---------------------------------------------------- the stream, read back

\* What a claim says of a stream is stated on the stream itself (the places
\* of its SOA rrsets), not on ixfrlog's locals.
Max(S) == CHOOSE x \in S : \A y \in S : y <= x
Min(S) == CHOOSE x \in S : \A y \in S : x <= y

SoaAt(s) == {i \in 1..Len(s) : s[i].rdtype = "SOA"}
\* the SOA markers: every SOA but the first
MarkersOf(s) == SoaAt(s) \ {Min(SoaAt(s))}
\* an rrset that is a change: neither SOA nor NSEC, NSEC3, RRSIG
IsChange(r) == r.rdtype \notin {"SOA", "NSEC", "NSEC3", "RRSIG"}
ChangesAt(s) == {i \in 1..Len(s) : IsChange(s[i])}

\* the marker immediately preceding the block of the rrset at i
MarkerBefore(s, i) == Max({j \in MarkersOf(s) : j < i})
\* the serial the decoder is at when it meets the marker at j: that of the
\* marker before it, or startSerial at the first marker
SerialBefore(s, j, start) ==
    LET before == {k \in MarkersOf(s) : k < j}
    IN  IF before = {} THEN start ELSE s[Max(before)].serial

\* owner names of zone "a", written out
OwnerInA(n) == IF n = <<"@">> THEN <<"a", ".">> ELSE n \o <<".", "a", ".">>

\* the event the claim expects for the change at i
ExpectedEvent(s, i, start) ==
    LET j == MarkerBefore(s, i)
    IN  [serial |-> s[j].serial,
         deleted |-> (s[j].serial = SerialBefore(s, j, start)),
         name |-> OwnerInA(s[i].name),
         rdtype |-> s[i].rdtype]

\* the expected events of a stream, in stream order
RECURSIVE ExpectedEvents(_, _, _)
ExpectedEvents(s, n, start) ==
    IF n = 0 THEN <<>>
    ELSE IF IsChange(s[n])
    THEN Append(ExpectedEvents(s, n - 1, start), ExpectedEvent(s, n, start))
    ELSE ExpectedEvents(s, n - 1, start)

\* what an emitted line or message says of its event
EventOf(l) ==
    [serial |-> l.serial, deleted |-> l.deleted, name |-> l.name,
     rdtype |-> l.rdtype]
EventsOf(ls) == [i \in 1..Len(ls) |-> EventOf(ls[i])]
PayloadsOf(ms) == [i \in 1..Len(ms) |-> EventOf(ms[i].payload)]

\* A valid IXFR session: it starts and ends with an SOA, and its record
\* blocks lie between SOA markers (no change precedes the second SOA).
ValidSession(s) ==
    /\ Len(s) >= 2
    /\ s[1].rdtype = "SOA"
    /\ s[Len(s)].rdtype = "SOA"
    /\ \A i \in ChangesAt(s) : \E j \in MarkersOf(s) : j < i

\* ixfrlog() has returned
Returned == pc = "close" /\ new_serial # None

\* ------------------------------------------------------------------ claims

\* C1: for every valid IXFR session and every startSerial, ixfrlog() emits
\* (to the log and to the publisher, whichever is configured) exactly the
\* non-ignored rrsets in stream order, each tagged by the SOA marker before
\* its block: deleted with that marker's serial when the marker left the
\* serial as it was, added with that marker's serial when it changed it.
C1_TaggedByMarker ==
    (Returned /\ ValidSession(stream)) =>
        LET expected == ExpectedEvents(stream, Len(stream), last_serial)
        IN  /\ changes = Len(expected)
            /\ args.log => EventsOf(output_fp.buf) = expected
            /\ args.mqtt => PayloadsOf(published) = expected

\* C1 witness: a valid session with a deleted and an added event has been
\* decoded into the log, from a startSerial that is not the first SOA's.
C1_Witness ==
    /\ Returned /\ ValidSession(stream) /\ args.log /\ args.mqtt
    /\ last_serial # stream[1].serial
    /\ \E i, j \in 1..Len(output_fp.buf) :
          /\ i < j
          /\ output_fp.buf[i].deleted
          /\ ~output_fp.buf[j].deleted

\* C2: whenever a non-ignored, non-SOA rrset is read before a second SOA
\* (also when no SOA precedes it), ixfrlog() ends with FailedIXFR carrying
\* the first SOA's serial, with nothing written to the log or published.
C2_NotIncremental ==
    (/\ stream # <<>>
     /\ IsChange(stream[Len(stream)])
     /\ Cardinality(SoaAt(stream)) < 2)
        => /\ pc = "except"
           /\ SoaAt(stream) # {}
           /\ exc = stream[Min(SoaAt(stream))].serial
           /\ output_fp.buf = <<>>
           /\ published = <<>>

\* the last iteration of the loop that ended, and its zone
Ended == pc = "loop" /\ idx > 0
endedZone == keys[idx]
\* the process has ended (sys.exit, or an exception no handler caught)
Exited == rc # None

\* C3: when a run succeeds with finalSerial # lastSerial and changeCount > 0
\* and the log is written, the zone's final artifact exists and holds every
\* event of the run, in order; the temporary file is not discarded.
C3_ArtifactProduced ==
    (/\ Ended /\ args.log
     /\ new_serial # None /\ new_serial # last_serial /\ res.changes > 0)
        => LET filename == [zone |-> rstrip(endedZone), serial |-> new_serial]
           IN  /\ idx \in renamed
               /\ filename \in DOMAIN finals
               /\ Len(finals[filename].disk) = res.changes
               /\ finals[filename].disk = output_fp.disk

\* C4 (state part): every file under a final name is closed, holds all that
\* was written to it, and is not empty.
C4_FinalIsComplete ==
    \A n \in DOMAIN finals :
        /\ ~finals[n].open
        /\ finals[n].buf = <<>>
        /\ finals[n].disk # <<>>

\* C4 (step part): a file comes under a final name only by the rename of a
\* closed temporary file, in a run that succeeded with an advanced serial.
C4_RenameAfterClose ==
    finals' # finals =>
        /\ pc = "finish"
        /\ ~output_fp.open /\ output_fp.onDisk
        /\ new_serial # None /\ new_serial # last_serial
        /\ res.changes > 0
        /\ \E n \in DOMAIN finals' :
              /\ finals'[n] = output_fp
              /\ \A m \in DOMAIN finals : m # n => finals'[m] = finals[m]

\* C4: a file under a final name exists only once its writer is closed and
\* the run that made it succeeded with an advanced serial and a non-empty
\* output; the rename follows the close, and no final-named file is ever
\* partially written.
C4_VisibleOnlyAfterClose ==
    []C4_FinalIsComplete /\ [][C4_RenameAfterClose]_vars

\* C4 witness: a final artifact exists, made by a closed writer.
C4_Witness ==
    /\ Ended /\ idx \in renamed
    /\ \E n \in DOMAIN finals : Len(finals[n].disk) > 0

\* the iteration is at its end and its output is a non-empty artifact
YieldsArtifact ==
    /\ pc = "finish" /\ output_fp.obj /\ output_size > 0
    /\ new_serial # None /\ new_serial # last_serial

\* C5: for every zone key, with or without a trailing dot, the end of a run
\* that yields a non-empty artifact leaves the zone's own entry with
\* serial = finalSerial and filename = <zone without dot>-<finalSerial>.log,
\* the temporary file renamed to that name, and main() at the next zone.
C5_OwnEntryNamesArtifact ==
    [][YieldsArtifact =>
        LET filename == [zone |-> rstrip(zone), serial |-> new_serial]
        IN  /\ pc' = "loop"
            /\ state'[zone].serial = new_serial
            /\ state'[zone].filename = filename
            /\ filename \in DOMAIN finals'
            /\ finals'[filename] = output_fp
            /\ ~output_fp'.onDisk]_vars

\* C6: when the process has ended, normally or on a transport failure of one
\* zone, every other zone has been processed and the state is persisted.
C6_OtherZonesProcessed ==
    pc \in {"done", "TransportError"} =>
        /\ idx >= Len(keys) - 1
        /\ saved = <<state>>

\* C7: an iteration that ended after FailedIXFR(s) has set the zone's serial
\* to s, made no final artifact, deleted the temporary file and marked the
\* exit status, and main() goes on with the loop.
C7_FastForward ==
    (Ended /\ new_serial = None) =>
        /\ state[endedZone].serial = exc
        /\ idx \notin renamed
        /\ ~output_fp.onDisk
        /\ exit_status # 0

\* C8: the exit status is zero exactly when every zone produced a renamed,
\* non-empty artifact, whichever sinks are configured.
C8_ExitStatus ==
    Exited => (rc = 0 <=> renamed = 1..Len(keys))

\* C9: when the process ends, no temporary file remains on disk.
C9_NoTemporaryLeft ==
    Exited => ~output_fp.onDisk

\* C10: the end of a run that succeeded with finalSerial = lastSerial makes
\* no final artifact, removes the temporary file and leaves the state (the
\* zone's serial and filename) as it was.
C10_NoOp ==
    [][(pc = "finish" /\ new_serial # None /\ new_serial = last_serial) =>
        /\ state' = state
        /\ finals' = finals
        /\ renamed' = renamed
        /\ ~output_fp'.onDisk
        /\ pc' = "loop"]_vars

\* C10 witness: a run that wrote events and ended at the serial it started
\* from has ended, its temporary file gone.
C10_Witness ==
    /\ Ended /\ args.log
    /\ new_serial # None /\ new_serial = last_serial
    /\ res.changes > 0 /\ output_size > 0
    /\ ~output_fp.onDisk

\* ------------------------------------------- claims on ixfrlog(), continued

\* the source answers for an unchanged zone: no add/delete block, and no SOA
\* with a serial other than the one asked from
UnchangedZone(s, start) ==
    /\ ChangesAt(s) = {}
    /\ \A i \in SoaAt(s) : s[i].serial = start

\* C14: run again from the serial a run returned, against an unchanged zone,
\* ixfrlog() returns changeCount = 0 and finalSerial = startSerial and emits
\* no event.
C14_Idempotent ==
    (Returned /\ UnchangedZone(stream, last_serial)) =>
        /\ res.changes = 0
        /\ res.serial = last_serial
        /\ output_fp.buf = <<>>
        /\ published = <<>>

\* C14 witness: a run from serial 11 (a serial a run can return) has
\* returned on the answer SOA 11, SOA 11.
C14_Witness ==
    /\ Returned /\ UnchangedZone(stream, last_serial)
    /\ last_serial = 11
    /\ Cardinality(SoaAt(stream)) >= 2
    /\ args.log /\ args.mqtt

\* the serial the stream ends at: that of the last SOA after the first, or
\* startSerial when there is none
FinalSerialOf(s, start) ==
    IF Cardinality(SoaAt(s)) < 2 THEN start
    ELSE s[Max(MarkersOf(s))].serial

\* C16: on stream exhaustion ixfrlog() returns changeCount = the number of
\* non-ignored rrsets (all emitted) and finalSerial = the serial of the last
\* SOA after the first one, or startSerial when fewer than two SOA were seen.
C16_Result ==
    Returned =>
        /\ res.changes = Cardinality(ChangesAt(stream))
        /\ args.log => Len(output_fp.buf) = res.changes
        /\ args.mqtt => Len(published) = res.changes
        /\ res.serial = FinalSerialOf(stream, last_serial)

\* C16 witness: a run has returned after a first SOA whose serial is not
\* the final one, an NSEC and two changes.
C16_Witness ==
    /\ Returned /\ args.log
    /\ res.changes = 2
    /\ \E i \in 1..Len(stream) : stream[i].rdtype = "NSEC"
    /\ stream[1].rdtype = "SOA" /\ stream[1].serial # res.serial
    /\ res.serial # last_serial

\* a log line without its "text"
WithoutText(l) ==
    [serial |-> l.serial, deleted |-> l.deleted, name |-> l.name,
     ttl |-> l.ttl, rdclass |-> l.rdclass, rdtype |-> l.rdtype,
     rdata |-> l.rdata]

IterationOf(topic) == CHOOSE k \in 1..Len(keys) : Topic(keys[k]) = topic
\* all that was ever published, in order
everPublished == prior \o published

\* C19: across the runs of the process each ChangeEvent of a zone is
\* published at most once, and when a process has ended every event it
\* published belongs to a run of a zone whose state was persisted and,
\* with --log, whose artifact was confirmed (renamed): none was published
\* for a run that aborted or was discarded.
C19_PublishedOnce ==
    /\ \A i, j \in 1..Len(everPublished) :
          i # j => everPublished[i] # everPublished[j]
    /\ Exited =>
          \A i \in 1..Len(published) :
              /\ saved = <<state>>
              /\ args.log => IterationOf(published[i].topic) \in renamed

\* C20: when the process ends, for every final artifact <zone>-<s>.log it
\* produced the state file it wrote records serial s and that file name
\* for the zone.
C20_StateRecordsArtifact ==
    Exited =>
        \A k \in renamed :
            /\ saved # <<>>
            /\ \E n \in DOMAIN finals :
                  /\ n.zone = rstrip(keys[k])
                  /\ saved[1][keys[k]].serial = n.serial
                  /\ saved[1][keys[k]].filename = n

\* ------------------------------------------------------------ watchlist.py

\* Texts are sequences of characters here, so that the comparison key is
\* formatted and sorted() compares by code point as Python does.

\* log lines read by one run of watchlist.py (SpecWatch)
MaxLog == 3

\* the origin of the logged zone
Origin == <<"a", ".">>
R1 == <<"r", "1">>
R2 == <<"r", "2">>
\* the watch lists the watch file may hold (dict order)
WatchLists ==
    { << [domain |-> <<"a", ".">>, recipients |-> <<R1>>] >>,
      << [domain |-> <<"a", ".">>, recipients |-> <<R1, R2>>],
         [domain |-> <<"w", ".", "a", ".">>, recipients |-> <<R2>>] >>,
      << [domain |-> <<"w", ".", "a", ".">>, recipients |-> <<R1>>],
         [domain |-> <<"a", ".">>, recipients |-> <<R1>>] >> }

\* the rrsets the log was written from
WatchRRset(n, rdata) == [RecRRset("A", n) EXCEPT !.rdata = rdata]
WatchRRsets ==
    {WatchRRset(<<"@">>, rdata) :
        rdata \in {<<"1">>, <<"2">>, <<"1", "2">>}}
        \cup {WatchRRset(n, <<"1">>) : n \in {<<"w">>, <<"x">>}}
\* the lines the log may hold, as ixfrlog() writes them
LogLines ==
    {LogEntry(rrset, 10, add, Origin) :
        rrset \in WatchRRsets, add \in BOOLEAN}
\* the names the accumulators may be asked for
Names ==
    {l.name : l \in LogLines}
        \cup UNION {{w[i].domain : i \in 1..Len(w)} : w \in WatchLists}

\* the characters of a one-word text
Chars(t) == IF t = "IN" THEN <<"I", "N">> ELSE <<t>>
\* ", ".join(repr(x) for x in rdata)
RECURSIVE ReprItems(_)
ReprItems(rdata) ==
    IF rdata = <<>> THEN <<>>
    ELSE <<"'">> \o Chars(Head(rdata)) \o <<"'">>
         \o (IF Len(rdata) > 1 THEN <<",", " ">> ELSE <<>>)
         \o ReprItems(Tail(rdata))
\* str(rdata) of a list
ReprList(rdata) == <<"[">> \o ReprItems(rdata) \o <<"]">>

\* change2rr(change)
change2rr(change) ==
    LET rdata == IF Len(change.rdata) = 1
                 THEN Chars(change.rdata[1])
                 ELSE ReprList(change.rdata)
    IN  change.name \o <<" ">> \o Chars(change.rdclass) \o <<" ">>
        \o Chars(change.rdtype) \o <<" ">> \o rdata

\* ord(c)
Ord(c) ==
    CASE c = " " -> 32 [] c = "'" -> 39 [] c = "," -> 44 [] c = "." -> 46
      [] c = "1" -> 49 [] c = "2" -> 50 [] c = "A" -> 65 [] c = "I" -> 73
      [] c = "N" -> 78 [] c = "[" -> 91 [] c = "]" -> 93 [] c = "a" -> 97
      [] c = "r" -> 114 [] c = "w" -> 119 [] c = "x" -> 120

\* s < t on str
RECURSIVE LexLess(_, _)
LexLess(s, t) ==
    IF t = <<>> THEN FALSE
    ELSE IF s = <<>> THEN TRUE
    ELSE IF Ord(Head(s)) # Ord(Head(t)) THEN Ord(Head(s)) < Ord(Head(t))
    ELSE LexLess(Tail(s), Tail(t))

\* sorted, had it been given reverse=True
RECURSIVE sortedDescending(_)
sortedDescending(S) ==
    IF S = {} THEN <<>>
    ELSE LET m == CHOOSE x \in S : \A y \in S \ {x} : LexLess(y, x)
         IN  <<m>> \o sortedDescending(S \ {m})
\* sorted(S)
RECURSIVE sorted(_)
sorted(S) ==
    IF S = {} THEN <<>>
    ELSE LET m == CHOOSE x \in S : \A y \in S \ {x} : LexLess(x, y)
         IN  <<m>> \o sorted(S \ {m})

\* domains_per_recipient[r].append(domain)
AppendDomain(dpr, r, domain) ==
    IF \E i \in 1..Len(dpr) : dpr[i].recipient = r
    THEN [i \in 1..Len(dpr) |->
            IF dpr[i].recipient = r
            THEN [dpr[i] EXCEPT !.domains = Append(@, domain)]
            ELSE dpr[i]]
    ELSE Append(dpr, [recipient |-> r, domains |-> <<domain>>])
\* for r in recipients
RECURSIVE ForRecipients(_, _, _)
ForRecipients(dpr, domain, recipients) ==
    IF recipients = <<>> THEN dpr
    ELSE ForRecipients(AppendDomain(dpr, Head(recipients), domain), domain,
                       Tail(recipients))
\* for domain, recipients in watchlist.items()
RECURSIVE ForItems(_, _)
ForItems(dpr, items) ==
    IF items = <<>> THEN dpr
    ELSE ForItems(ForRecipients(dpr, Head(items).domain,
                                Head(items).recipients),
                  Tail(items))

\* IsWatched, had every name been taken
IsWatchedAlways(name, w) == TRUE
\* name in watchlist
IsWatched(name, w) == \E i \in 1..Len(w) : w[i].domain = name

\* Deleted, had the flag been read the other way round
DeletedInverted(change) == ~change.deleted
\* change["deleted"]
Deleted(change) == change.deleted

\* DataDelAfter, had the addition not discarded the key
DataDelAfterNoDiscard(S, deleted, v) == IF deleted THEN S \cup {v} ELSE S
\* data_del[name] after the line: add(v) on a deletion, else discard(v)
DataDelAfter(S, deleted, v) == IF deleted THEN S \cup {v} ELSE S \ {v}

\* DataAddAfter, had the deletion not discarded the key
DataAddAfterNoDiscard(S, deleted, v) == IF deleted THEN S ELSE S \cup {v}
\* data_add[name] after the line: discard(v) on a deletion, else add(v)
DataAddAfter(S, deleted, v) == IF deleted THEN S \ {v} ELSE S \cup {v}

\* print(f"  Deleted: {rr}") / print(f"  Added:   {rr}")
Line(kind, rr) == [kind |-> kind, rr |-> rr]
LinesOf(kind, rrs) == [i \in 1..Len(rrs) |-> Line(kind, rrs[i])]
\* the lines printed for domain d
DomainLines(d) ==
    LinesOf("Deleted", sorted(data_del[d]))
        \o LinesOf("Added", sorted(data_add[d]))
\* for d in domains
RECURSIVE ForDomains(_)
ForDomains(domains) ==
    IF domains = <<>> THEN <<>>
    ELSE DomainLines(Head(domains)) \o ForDomains(Tail(domains))

\* the watch list is read and the index recipient -> domains is built
LoadWatchlist(w) ==
    /\ wpc = "idle"
    /\ wpc' = "fold"
    /\ watchlist' = w
    /\ domains_per_recipient' = ForItems(<<>>, w)
    /\ data_del' = [n \in Names |-> {}]
    /\ data_add' = [n \in Names |-> {}]
    /\ modified_names' = {}
    /\ UNCHANGED <<ixfrVars, runVars, lines, printed>>

\* one line of the log is read and folded
ReadLine(change) ==
    /\ wpc = "fold"
    /\ lines' = Append(lines, change)
    /\ LET name == change.name
           v == change2rr(change)
       IN  IF ~IsWatched(name, watchlist)
           THEN UNCHANGED <<data_del, data_add, modified_names>>
           ELSE /\ modified_names' = modified_names \cup {name}
                /\ data_del' =
                      [data_del EXCEPT
                          ![name] = DataDelAfter(@, Deleted(change), v)]
                /\ data_add' =
                      [data_add EXCEPT
                          ![name] = DataAddAfter(@, Deleted(change), v)]
    /\ UNCHANGED <<ixfrVars, runVars, wpc, watchlist,
                   domains_per_recipient, printed>>

\* the log has no more lines
EndOfLog ==
    /\ wpc = "fold"
    /\ wpc' = IF domains_per_recipient = <<>> THEN "done" ELSE "report"
    /\ UNCHANGED <<ixfrVars, runVars, watchlist, domains_per_recipient,
                   data_del, data_add, modified_names, lines, printed>>

\* the report of the next recipient is printed
ReportRecipient ==
    /\ wpc = "report"
    /\ LET i == Len(printed) + 1
           recipient == domains_per_recipient[i].recipient
           domains == domains_per_recipient[i].domains
       IN  /\ printed' =
                 Append(printed,
                        <<Line("Report for", recipient)>>
                            \o ForDomains(domains))
           /\ wpc' = IF i = Len(domains_per_recipient)
                     THEN "done" ELSE "report"
    /\ UNCHANGED <<ixfrVars, runVars, watchlist, domains_per_recipient,
                   data_del, data_add, modified_names, lines>>

\* ixfrlog.py has run and left its log; watchlist.py starts
InitWatch ==
    /\ args = [log |-> TRUE, mqtt |-> FALSE]
    /\ keys = <<>>
    /\ state = <<>>
    /\ saved = <<state>>
    /\ idx = 0
    /\ pc = "done"
    /\ exit_status = 0
    /\ rc = 0
    /\ last_serial = 0 /\ new_serial = None /\ res = NoResult
    /\ exc = None /\ output_size = 0
    /\ serial = 0 /\ ixfr_found = FALSE /\ first_soa = None
    /\ action_add = Unbound /\ changes = 0
    /\ stream = <<>>
    /\ output_fp = NoFile
    /\ finals = <<>>
    /\ renamed = {}
    /\ published = <<>>
    /\ run = 1 /\ loaded = state /\ prior = <<>>
    /\ WatchIdle

NextWatch ==
    \/ \E w \in WatchLists : LoadWatchlist(w)
    \/ (Len(lines) < MaxLog /\ \E change \in LogLines : ReadLine(change))
    \/ EndOfLog
    \/ ReportRecipient

SpecWatch == InitWatch /\ [][NextWatch]_vars

\* ---------------------------------------------------- claims on watchlist.py

\* What a claim says of the log is stated on the lines read, by the fields
\* of each line.
Folding == wpc # "idle"
\* the comparison keys the log may give
AllKeys == {change2rr(l) : l \in LogLines}
\* the domains of the watch list
WatchKeys == {watchlist[i].domain : i \in 1..Len(watchlist)}
\* the events of log with key k for domain d
EventsFor(log, d, k) ==
    {i \in 1..Len(log) : log[i].name = d /\ change2rr(log[i]) = k}
\* the last event of log with key k for domain d is a deletion (an addition)
LastIsDeletion(log, d, k) ==
    EventsFor(log, d, k) # {} /\ log[Max(EventsFor(log, d, k))].deleted
LastIsAddition(log, d, k) ==
    EventsFor(log, d, k) # {} /\ ~log[Max(EventsFor(log, d, k))].deleted

\* C11: after folding any sequence of log lines, for every watched domain and
\* every comparison key, the key is in the deleted set and not in the added
\* set if the last event with that key for the domain is a deletion, in the
\* added set and not in the deleted set if it is an addition, and in neither
\* if no event mentions it.
C11_NetDiff ==
    Folding =>
        \A d \in WatchKeys : \A k \in AllKeys :
            /\ LastIsDeletion(lines, d, k) =>
                  k \in data_del[d] /\ k \notin data_add[d]
            /\ LastIsAddition(lines, d, k) =>
                  k \in data_add[d] /\ k \notin data_del[d]
            /\ EventsFor(lines, d, k) = {} =>
                  k \notin data_del[d] /\ k \notin data_add[d]
\* three lines folded: a key whose last event is a deletion, one whose last
\* event is an addition, and one that no line mentions
C11_Witness ==
    /\ wpc = "fold" /\ Len(lines) = 3
    /\ \E d \in WatchKeys : \E k1, k2, k3 \in AllKeys :
          /\ LastIsDeletion(lines, d, k1) /\ k1 \in data_del[d]
          /\ LastIsAddition(lines, d, k2) /\ k2 \in data_add[d]
          /\ Cardinality(EventsFor(lines, d, k2)) = 2
          /\ EventsFor(lines, d, k3) = {} /\ k3 \notin data_add[d]

\* the key k of domain d went from one set to the other: an addition and a
\* deletion of it, one after the other
Churned(log, d, k) ==
    \E i, j \in EventsFor(log, d, k) :
        i < j /\ log[i].deleted # log[j].deleted
\* the domains of the i-th recipient's report
ReportedDomains(i) ==
    {domains_per_recipient[i].domains[j] :
        j \in 1..Len(domains_per_recipient[i].domains)}
\* the lines of a report that print key k
LinesFor(report, k) ==
    {j \in 1..Len(report) :
        report[j].kind \in {"Deleted", "Added"} /\ report[j].rr = k}

\* C12: for a watched domain, a record value that is added and later deleted
\* within the log (or deleted and later added again) produces no report
\* line for that value: [add X, del X] gives an empty report.
C12_ChurnCancels ==
    \A i \in 1..Len(printed) : \A d \in ReportedDomains(i) :
        \A k \in AllKeys :
            Churned(lines, d, k) => LinesFor(printed[i], k) = {}

\* C12, amended: for a watched domain, a record value that is added and
\* later deleted within the log (or deleted and later added again) produces
\* exactly one report line for that value, and the line is that of its last
\* event: "Deleted" after add-then-delete, "Added" after delete-then-add.
C12_LastEventWins ==
    \A i \in 1..Len(printed) : \A d \in ReportedDomains(i) :
        \A k \in AllKeys :
            Churned(lines, d, k) =>
                \E j \in 1..Len(printed[i]) :
                    /\ LinesFor(printed[i], k) = {j}
                    /\ printed[i][j].kind =
                          IF lines[Max(EventsFor(lines, d, k))].deleted
                          THEN "Deleted" ELSE "Added"
\* the log [add X, del X] of a watched domain, reported as "Deleted: X"
C12_Witness ==
    /\ wpc = "done" /\ Len(lines) = 2
    /\ \E d \in ReportedDomains(1) :
          /\ lines[1].name = d /\ lines[2].name = d
          /\ change2rr(lines[1]) = change2rr(lines[2])
          /\ ~lines[1].deleted /\ lines[2].deleted
          /\ printed[1][2] = Line("Deleted", change2rr(lines[1]))

\* C13: after each processed log line, for every domain the added set and
\* the deleted set are disjoint.
C13_Disjoint ==
    Folding => \A n \in Names : data_del[n] \cap data_add[n] = {}
\* a key that was deleted and then added: it is in the added set and was
\* discarded from the deleted set
C13_Witness ==
    /\ wpc = "fold"
    /\ \E d \in WatchKeys : \E k \in AllKeys :
          /\ Churned(lines, d, k)
          /\ k \in data_add[d]
          /\ \E i \in EventsFor(lines, d, k) : lines[i].deleted

\* The report a claim expects, stated on the log and the watch list.
\* the domains of watch list w that name recipient r, in the order of w
RECURSIVE AssignedTo(_, _)
AssignedTo(w, r) ==
    IF w = <<>> THEN <<>>
    ELSE (IF \E j \in 1..Len(Head(w).recipients) :
                Head(w).recipients[j] = r
          THEN <<Head(w).domain>> ELSE <<>>)
         \o AssignedTo(Tail(w), r)
NetDeleted(log, d) == {k \in AllKeys : LastIsDeletion(log, d, k)}
NetAdded(log, d) == {k \in AllKeys : LastIsAddition(log, d, k)}
\* the one listing of S in which every key is less than the next
Ascending(S) ==
    CHOOSE q \in [1..Cardinality(S) -> S] :
        \A i, j \in 1..Cardinality(S) : i < j => LexLess(q[i], q[j])
Listed(kind, q) == [i \in 1..Len(q) |-> [kind |-> kind, rr |-> q[i]]]
RECURSIVE ExpectedBody(_, _)
ExpectedBody(log, domains) ==
    IF domains = <<>> THEN <<>>
    ELSE Listed("Deleted", Ascending(NetDeleted(log, Head(domains))))
         \o Listed("Added", Ascending(NetAdded(log, Head(domains))))
         \o ExpectedBody(log, Tail(domains))
ExpectedReport(log, w, r) ==
    <<[kind |-> "Report for", rr |-> r]>>
        \o ExpectedBody(log, AssignedTo(w, r))
\* the recipient of a printed report
RecipientOf(report) == report[1].rr

\* C15: the report of each recipient lists the recipient's watched domains
\* in the order of the watch list and, for each domain, the lines of the
\* deleted set before those of the added set, each set in ascending order of
\* the comparison key; it is a function of the log and the watch list.
C15_ReportOrder ==
    \A i \in 1..Len(printed) :
        printed[i] =
            ExpectedReport(lines, watchlist, RecipientOf(printed[i]))
\* a report with two "Deleted" lines, logged in descending order, and an
\* "Added" line after them
C15_Witness ==
    /\ wpc = "done" /\ Len(lines) = 3
    /\ LexLess(change2rr(lines[2]), change2rr(lines[1]))
    /\ \E i \in 1..Len(printed) :
          /\ Len(printed[i]) = 4
          /\ printed[i][2] = Line("Deleted", change2rr(lines[2]))
          /\ printed[i][3] = Line("Deleted", change2rr(lines[1]))
          /\ printed[i][4] = Line("Added", change2rr(lines[3]))

\* the lines of log whose owner is in D
EventsOfDomains(log, D) == SelectSeq(log, LAMBDA l : l.name \in D)
\* the domains assigned to recipient r
DomainsOf(r) ==
    {AssignedTo(watchlist, r)[j] :
        j \in 1..Len(AssignedTo(watchlist, r))}

\* C18: a log line whose owner is not a key of the watch list changes no
\* accumulator, and the report of a recipient is the report of the log
\* restricted to the lines of the domains assigned to that recipient.
C18_RoutingIsolation ==
    /\ [](\A i \in 1..Len(printed) :
            LET r == RecipientOf(printed[i])
            IN  printed[i] =
                    ExpectedReport(EventsOfDomains(lines, DomainsOf(r)),
                                   watchlist, r))
    /\ [][(/\ lines' # lines
           /\ lines'[Len(lines')].name \notin WatchKeys)
            => UNCHANGED <<data_del, data_add, modified_names>>]_vars
\* a log with a line of an unwatched owner, a line of a domain of the second
\* recipient only, and a line of a domain of both: the first recipient's
\* report has the one line
C18_Witness ==
    /\ wpc = "done" /\ Len(printed) = 2 /\ Len(lines) = 3
    /\ {lines[i].name : i \in 1..3} \ WatchKeys # {}
    /\ DomainsOf(RecipientOf(printed[1])) # DomainsOf(RecipientOf(printed[2]))
    /\ \E i \in 1..3 :
          lines[i].name \in
              DomainsOf(RecipientOf(printed[2]))
                  \ DomainsOf(RecipientOf(printed[1]))
    /\ Len(printed[1]) = 2 /\ Len(printed[2]) = 3

====
